---- MODULE Spec2Model ----
(***************************************************************************)
(* Model of the telephony voice bot: the /ws correlation loop and replay   *)
(* wrapper of server.py, the bot() configuration extraction of bot.py, the *)
(* /start and /twiml handlers with the call_body_data registry, and the    *)
(* run_bot session (session timer, idle handlers, disconnect handler).     *)
(***************************************************************************)
EXTENDS Integers, Sequences, FiniteSets, Bags, TLC

(* ------------------------------ bounds -------------------------------- *)
\* wire messages other than "connected" and "start" read on one connection
MaxNoise == 1
\* messages read from the live connection after the hand-off to bot()
MaxLive == 1
\* POST /start requests and POST /twiml requests the server receives
MaxStarts == 2
MaxTwimls == 2
\* on_idle_timeout events of one pipeline task
MaxIdleFires == 1
\* times the caller speaks again after an idle prompt
MaxActivity == 1
\* on_client_connected events of one transport after the first
MaxReconnects == 1

(* ------------------------- program constants -------------------------- *)
max_attempts == 10

VARIABLES
  \* --- websocket_endpoint locals (server.py 166-171) and its position
  wsPc, attempt, call_sid, stream_sid, custom_parameters, start_message_data,
  \* --- ReplayWebSocket.start_sent, runner_args.body / call_data, bot() config
  start_sent, runner_body, call_data, botInvoked, config,
  \* --- observation of the connection: every message taken from the real
  \* websocket, how many of them the correlation loop took, the number of
  \* receive() calls of the loop, how many of those timed out or raised,
  \* and what ReplayWebSocket.receive() has returned so far
  wire, consumedLen, numReceive, numFail, delivered,
  \* --- the server process: os.getenv("BASE_URL") / os.getenv("NGROK_URL"),
  \* the registry call_body_data (server.py 15), the requests whose handler
  \* waits for its body (inflight), the requests answered with their
  \* responses (done), the calls placed through make_twilio_call, and the
  \* numbers of /start and /twiml requests received
  BASE_URL, NGROK_URL, call_body_data, inflight, done, placed, nStart,
  nTwiml,
  \* --- run_bot: where runner.run(task) stands, the client of the transport,
  \* session_timer_task (bot.py 70), the on_idle_timeout handlers started,
  \* the UserIdleProcessor (its retry count and whether it still monitors),
  \* the bag of frames queued or pushed so far, the number of
  \* task.cancel() calls, the number of times the caller was active, and
  \* the session timer tasks that session_timer_task no longer refers to
  runner, client, session_timer_task, idleHandlers, retry_count, userIdle,
  frames, cancels, activity, orphans

wsVars == <<wsPc, attempt, call_sid, stream_sid, custom_parameters,
            start_message_data, start_sent, runner_body, call_data,
            botInvoked, config, wire, consumedLen, numReceive, numFail,
            delivered>>

srvVars == <<BASE_URL, NGROK_URL, call_body_data, inflight, done, placed,
             nStart, nTwiml>>

sesVars == <<runner, client, session_timer_task, idleHandlers, retry_count,
             userIdle, frames, cancels, activity, orphans>>

vars == <<wsVars, srvVars, sesVars>>

(* ------------------------- python value helpers ----------------------- *)
None == "None"
EmptyDict == [k \in {} |-> None]

\* dict.get(key, default)
DictGet(d, k, default) == IF k \in DOMAIN d THEN d[k] ELSE default

\* raw parameter values: python ints and python strings (a string is the
\* sequence of its characters)
IntVal(n) == [t |-> "int", v |-> n]
StrVal(cs) == [t |-> "str", s |-> cs]

Digits == {"0", "1", "2", "3", "5", "8"}
DigitVal(c) ==
  CASE c = "0" -> 0 [] c = "1" -> 1 [] c = "2" -> 2
    [] c = "3" -> 3 [] c = "5" -> 5 [] c = "8" -> 8 [] OTHER -> 0

RECURSIVE DigitsValue(_)
DigitsValue(cs) ==
  IF cs = <<>> THEN 0
  ELSE 10 * DigitsValue(SubSeq(cs, 1, Len(cs) - 1)) + DigitVal(cs[Len(cs)])

AllDigits(cs) == Len(cs) > 0 /\ \A i \in 1..Len(cs) : cs[i] \in Digits

\* python int(x): an int is returned as it is, a string is parsed as an
\* optionally signed decimal literal, anything else raises ValueError
PyInt(raw) ==
  IF raw.t = "int" THEN [ok |-> TRUE, v |-> raw.v]
  ELSE LET cs == raw.s IN
    IF Len(cs) > 0 /\ cs[1] \in {"-", "+"}
    THEN IF AllDigits(Tail(cs))
         THEN [ok |-> TRUE,
               v |-> IF cs[1] = "-" THEN 0 - DigitsValue(Tail(cs))
                     ELSE DigitsValue(Tail(cs))]
         ELSE [ok |-> FALSE, v |-> 0]
    ELSE IF AllDigits(cs) THEN [ok |-> TRUE, v |-> DigitsValue(cs)]
         ELSE [ok |-> FALSE, v |-> 0]

(* ----------------------------- DEFAULT_CONFIG ------------------------- *)
DefaultPrompt == StrVal(<<"d">>)
\* defaults with the two idle timeouts in each other's place
DEFAULT_CONFIG_Swapped ==
  [llm_context |-> DefaultPrompt,
   session_duration |-> IntVal(180),
   idle_warning_timeout |-> IntVal(30),
   idle_disconnect_timeout |-> IntVal(8)]

\* bot.py 38-43
DEFAULT_CONFIG ==
  [llm_context |-> DefaultPrompt,
   session_duration |-> IntVal(180),
   idle_warning_timeout |-> IntVal(8),
   idle_disconnect_timeout |-> IntVal(30)]

(* ------------------------- websocket messages ------------------------- *)
\* A JSON text is its formatting and the value it denotes; json.loads
\* forgets the formatting, json.dumps writes python's own formatting.
JsonMalformed == [j |-> "malformed"]
JsonList == [j |-> "list"]
JsonObj(ev, st) == [j |-> "obj", event |-> ev, start |-> st]

WireText(body) == [fmt |-> "wire", body |-> body]
json_loads(text) == text.body
json_dumps(data) == [fmt |-> "python", body |-> data]

TextMsg(text) == [type |-> "websocket.receive", text |-> <<text>>]
BytesMsg == [type |-> "websocket.receive", text |-> <<>>]
DisconnectMsg == [type |-> "websocket.disconnect", text |-> <<>>]

ConnectedMsg == TextMsg(WireText(JsonObj("connected", <<>>)))
MediaMsg == TextMsg(WireText(JsonObj("media", <<>>)))
MalformedMsg == TextMsg(WireText(JsonMalformed))
ListMsg == TextMsg(WireText(JsonList))

StartData(cs, ss, cp) ==
  [callSid |-> cs, streamSid |-> ss, customParameters |-> cp]
StartMsg(cs, ss, cp) ==
  TextMsg(WireText(JsonObj("start", <<StartData(cs, ss, cp)>>)))

\* customParameters of the start events put on the wire: missing, empty,
\* the stream parameters of a configured call, an unparsable duration
WireParams ==
  { <<>>,
    <<EmptyDict>>,
    <<[session_duration |-> StrVal(<<"5">>),
       idle_warning_timeout |-> StrVal(<<"2">>)]>>,
    <<[session_duration |-> StrVal(<<"a">>)]>> }

StartMsgs ==
  { StartMsg(cs, "MZ1", cp) : cs \in {"CA1", None}, cp \in WireParams }

NoiseMsgs == {MediaMsg, MalformedMsg, ListMsg, BytesMsg, DisconnectMsg}

IsStartMsg(m) ==
  /\ m.text # <<>>
  /\ m.text[1].body.j = "obj"
  /\ m.text[1].body.event = "start"

RECURSIVE NoiseCount(_)
NoiseCount(w) ==
  IF w = <<>> THEN 0
  ELSE NoiseCount(Tail(w)) + (IF Head(w) \in NoiseMsgs THEN 1 ELSE 0)

\* what the peer may send next on a connection whose history is w
WireNext(w) ==
  {ConnectedMsg} \cup StartMsgs
    \cup (IF NoiseCount(w) < MaxNoise THEN NoiseMsgs ELSE {})

(* ------------------------- more python helpers ------------------------ *)
\* truth value of a raw value: "" and 0 are falsy
Truthy(raw) == IF raw.t = "int" THEN raw.v # 0 ELSE raw.s # <<>>

DigitChar(n) ==
  CASE n = 0 -> "0" [] n = 1 -> "1" [] n = 2 -> "2" [] n = 3 -> "3"
    [] n = 4 -> "4" [] n = 5 -> "5" [] n = 6 -> "6" [] n = 7 -> "7"
    [] n = 8 -> "8" [] OTHER -> "9"

RECURSIVE NatChars(_)
NatChars(n) ==
  IF n < 10 THEN <<DigitChar(n)>>
  ELSE Append(NatChars(n \div 10), DigitChar(n % 10))

\* python str(x)
PyStr(raw) ==
  IF raw.t = "str" THEN raw
  ELSE IF raw.v < 0 THEN StrVal(<<"-">> \o NatChars(0 - raw.v))
       ELSE StrVal(NatChars(raw.v))

\* an update in which the entries already present win
DictUpdateKeep(a, b) ==
  [k \in DOMAIN a \cup DOMAIN b |-> IF k \in DOMAIN a THEN a[k] ELSE b[k]]

\* a.update(b): the entries of b replace those of a
DictUpdate(a, b) ==
  [k \in DOMAIN a \cup DOMAIN b |-> IF k \in DOMAIN b THEN b[k] ELSE a[k]]

\* del d[k]
DictDel(d, k) == [x \in DOMAIN d \ {k} |-> d[x]]

\* a store that is lost
DictSetLost(d, k, v) == d

\* d[k] = v
DictSet(d, k, v) == [x \in DOMAIN d \cup {k} |-> IF x = k THEN v ELSE d[x]]

\* a URL is the sequence of its parts, the scheme prefix being one part;
\* str.replace(old, new) replaces every occurrence of the part old
StrReplace(url, old, new) ==
  [i \in 1..Len(url) |-> IF url[i] = old THEN new ELSE url[i]]

(* ------------------------------ generate_twiml ------------------------ *)
\* server.py 21-31
websocket_url(host, base_url, ngrok_url) ==
  IF base_url # <<>>
  THEN Append(StrReplace(base_url[1], "https://", "wss://"), "/ws")
  ELSE IF ngrok_url # <<>>
       THEN Append(StrReplace(StrReplace(ngrok_url[1], "https://", "wss://"),
                              "http://", "ws://"), "/ws")
       ELSE <<"wss://", host, "/ws">>

\* server.py 17-47: the document is its stream url and stream parameters
generate_twiml(host, body_data, base_url, ngrok_url) ==
  [url |-> websocket_url(host, base_url, ngrok_url),
   params |-> body_data,
   pause |-> 20]

(* ------------------------------ POST /start --------------------------- *)
Sids == {"CA1", "CA2"}

ServerPrompt == DefaultPrompt

\* server.py 89-94
config_params(data) ==
  [llm_context |-> DictGet(data, "llm_context", ServerPrompt),
   session_duration |-> DictGet(data, "session_duration", IntVal(180)),
   idle_warning_timeout |-> DictGet(data, "idle_warning_timeout", IntVal(8)),
   idle_disconnect_timeout |->
     DictGet(data, "idle_disconnect_timeout", IntVal(30))]

\* server.py 86-97
start_body_data(data) ==
  DictUpdate(DictGet(data, "body", EmptyDict), config_params(data))

Phone == StrVal(<<"+", "1", "5">>)

\* request bodies of POST /start
StartInputs ==
  { EmptyDict,
    [phone_number |-> StrVal(<<>>), session_duration |-> IntVal(5)],
    [phone_number |-> Phone, session_duration |-> IntVal(5),
     idle_warning_timeout |-> IntVal(2)],
    [phone_number |-> IntVal(15),
     body |-> [customer |-> StrVal(<<"b">>), session_duration |-> IntVal(99)],
     llm_context |-> StrVal(<<"c">>)] }

\* a POST /start request arrives; the handler waits in request.json() (81)
StartArrive ==
  /\ nStart < MaxStarts
  /\ nStart' = nStart + 1
  /\ \E d \in StartInputs :
       inflight' = inflight (+) SetToBag({[kind |-> "start", data |-> d]})
  /\ UNCHANGED <<BASE_URL, NGROK_URL, call_body_data, done, placed, nTwiml>>
  /\ UNCHANGED <<wsVars, sesVars>>

\* the handler of request r returns (or raises) resp
Respond(r, resp) ==
  /\ inflight' = inflight (-) SetToBag({r})
  /\ done' = done (+) SetToBag({[kind |-> r.kind, data |-> r.data,
                                 response |-> resp]})

\* the HTTPException raised inside the try block is an Exception: line 124
\* catches it and raises HTTPException(500) in its place
StartErrorStatus(raised) == 500

\* server.py 82-126, from the return of request.json() to the response;
\* no await in between
StartRun(r) ==
  /\ r.kind = "start"
  /\ LET data == r.data IN
     IF ~("phone_number" \in DOMAIN data /\ Truthy(data.phone_number))
     THEN /\ Respond(r, [status |-> StartErrorStatus(400)])
          /\ UNCHANGED <<call_body_data, placed>>
     ELSE IF BASE_URL = <<>> /\ NGROK_URL = <<>>
     THEN /\ Respond(r, [status |-> StartErrorStatus(500)])
          /\ UNCHANGED <<call_body_data, placed>>
     ELSE LET phone_number == PyStr(data.phone_number)
              body_data == start_body_data(data)
          IN \/ \* make_twilio_call raises (credentials, gateway error)
                /\ Respond(r, [status |-> StartErrorStatus(500)])
                /\ UNCHANGED <<call_body_data, placed>>
             \/ \E sid \in Sids :
                  /\ placed' = Append(placed, [to |-> phone_number,
                                               sid |-> sid])
                  /\ call_body_data' =
                       IF DOMAIN body_data # {}
                       THEN DictSet(call_body_data, sid, body_data)
                       ELSE call_body_data
                  /\ Respond(r, [status |-> 200, call_sid |-> sid,
                                 state |-> "call_initiated",
                                 phone_number |-> phone_number,
                                 at |-> Len(placed) + 1])
  /\ UNCHANGED <<BASE_URL, NGROK_URL, nStart, nTwiml>>
  /\ UNCHANGED <<wsVars, sesVars>>

(* ------------------------------ POST /twiml --------------------------- *)
\* form field CallSid ("" when missing) and host header (<<>> when missing)
TwimlInputs ==
  { [CallSid |-> "CA1", host |-> <<"h">>],
    [CallSid |-> "CA2", host |-> <<"h">>],
    [CallSid |-> "", host |-> <<"h">>],
    [CallSid |-> "CA1", host |-> <<>>] }

\* a POST /twiml request arrives; the handler waits in request.form() (133)
TwimlArrive ==
  /\ nTwiml < MaxTwimls
  /\ nTwiml' = nTwiml + 1
  /\ \E d \in TwimlInputs :
       inflight' = inflight (+) SetToBag({[kind |-> "twiml", data |-> d]})
  /\ UNCHANGED <<BASE_URL, NGROK_URL, call_body_data, done, placed, nStart>>
  /\ UNCHANGED <<wsVars, sesVars>>

\* the registry after a take (server.py 138-139) that forgets the delete
TakeKeep(reg, sid) == reg

\* a take that empties the registry
TakeClear(reg, sid) == EmptyDict

\* server.py 138-139
Take(reg, sid) ==
  IF sid # "" /\ sid \in DOMAIN reg THEN DictDel(reg, sid) ELSE reg

\* server.py 134-151, from the return of request.form() to the response;
\* no await in between.  With the response are noted the parameters the
\* handler got from the registry and how many calls had been placed then.
TwimlRun(r) ==
  /\ r.kind = "twiml"
  /\ LET sid == r.data.CallSid
         host == r.data.host
         body_data == DictGet(call_body_data, sid, EmptyDict)
     IN /\ call_body_data' = Take(call_body_data, sid)
        /\ IF host = <<>>
           THEN Respond(r, [status |-> 500, at |-> Len(placed),
                            taken |-> body_data])
           ELSE Respond(r, [status |-> 200, at |-> Len(placed),
                            taken |-> body_data,
                            content |-> generate_twiml(host[1], body_data,
                                                       BASE_URL, NGROK_URL)])
  /\ UNCHANGED <<BASE_URL, NGROK_URL, placed, nStart, nTwiml>>
  /\ UNCHANGED <<wsVars, sesVars>>

(* ---------------------------- server specification -------------------- *)
\* values of an URL environment variable: unset, https, http
EnvUrls == { <<>>, << <<"https://", "b">> >>, << <<"http://", "b">> >> }

\* the configurations of the two variables; NGROK_URL is read only when
\* BASE_URL is unset
EnvConfigs ==
  { e \in EnvUrls \X EnvUrls : e[1] # <<>> => e[2] = <<>> }

InitSrv ==
  /\ call_body_data = EmptyDict
  /\ inflight = EmptyBag
  /\ done = EmptyBag
  /\ placed = <<>>
  /\ nStart = 0
  /\ nTwiml = 0

StartHandler == \E r \in BagToSet(inflight) : StartRun(r)
TwimlHandler == \E r \in BagToSet(inflight) : TwimlRun(r)

NextSrv ==
  \/ StartArrive
  \/ TwimlArrive
  \/ StartHandler
  \/ TwimlHandler

(* ------------------ websocket_endpoint: correlation loop -------------- *)
HasText(m) == m.type = "websocket.receive" /\ m.text # <<>>

\* the loop gives up one attempt early
LoopCondShort(a, cs) == a < max_attempts - 1 /\ cs = None

\* while attempt < max_attempts and call_sid is None
LoopCond(a, cs) == a < max_attempts /\ cs = None

\* websocket.receive() returned message m (server.py 175-200)
RecvMessage ==
  /\ wsPc = "loop"
  /\ LoopCond(attempt, call_sid)
  /\ \E m \in WireNext(wire) :
       /\ wire' = Append(wire, m)
       /\ consumedLen' = consumedLen + 1
       /\ numReceive' = numReceive + 1
       /\ IF HasText(m)
          THEN LET data == json_loads(m.text[1]) IN
               IF data.j = "obj" /\ data.event = "start"
               THEN LET start_data ==
                          IF data.start = <<>> THEN StartData(None, None, <<>>)
                          ELSE data.start[1]
                    IN /\ call_sid' = start_data.callSid
                       /\ stream_sid' = start_data.streamSid
                       /\ custom_parameters' =
                            IF start_data.customParameters = <<>>
                            THEN EmptyDict
                            ELSE start_data.customParameters[1]
                       /\ start_message_data' = <<data>>
                       /\ wsPc' = "handoff"
                       /\ UNCHANGED attempt
               ELSE \* another event, JSONDecodeError (198), or data.get
                    \* raising on a non-object (205): one attempt is used
                    /\ attempt' = attempt + 1
                    /\ UNCHANGED <<call_sid, stream_sid, custom_parameters,
                                   start_message_data, wsPc>>
          ELSE \* not a text message: the if of line 178 is skipped
               UNCHANGED <<attempt, call_sid, stream_sid, custom_parameters,
                           start_message_data, wsPc>>
  /\ UNCHANGED <<start_sent, runner_body, call_data, botInvoked, config,
                 numFail, delivered>>
  /\ UNCHANGED <<srvVars, sesVars>>

\* asyncio.wait_for timed out after 2 seconds (server.py 202-204)
RecvTimeout ==
  /\ wsPc = "loop"
  /\ LoopCond(attempt, call_sid)
  /\ attempt' = attempt + 1
  /\ numReceive' = numReceive + 1
  /\ numFail' = numFail + 1
  /\ UNCHANGED <<wsPc, call_sid, stream_sid, custom_parameters,
                 start_message_data, start_sent, runner_body, call_data,
                 botInvoked, config, wire, consumedLen, delivered>>
  /\ UNCHANGED <<srvVars, sesVars>>

\* websocket.receive() raised (server.py 205-207)
RecvError ==
  /\ wsPc = "loop"
  /\ LoopCond(attempt, call_sid)
  /\ wire # <<>> /\ wire[Len(wire)] = DisconnectMsg
  /\ attempt' = attempt + 1
  /\ numReceive' = numReceive + 1
  /\ numFail' = numFail + 1
  /\ UNCHANGED <<wsPc, call_sid, stream_sid, custom_parameters,
                 start_message_data, start_sent, runner_body, call_data,
                 botInvoked, config, wire, consumedLen, delivered>>
  /\ UNCHANGED <<srvVars, sesVars>>

\* the while condition is false: the attempts are used up
LoopExit ==
  /\ wsPc = "loop"
  /\ ~LoopCond(attempt, call_sid)
  /\ wsPc' = "handoff"
  /\ UNCHANGED <<attempt, call_sid, stream_sid, custom_parameters,
                 start_message_data, start_sent, runner_body, call_data,
                 botInvoked, config, wire, consumedLen, numReceive, numFail,
                 delivered>>
  /\ UNCHANGED <<srvVars, sesVars>>

\* server.py 238-253: wrap the websocket, fill runner_args, call bot()
Handoff ==
  /\ wsPc = "handoff"
  /\ runner_body' = custom_parameters
  /\ call_data' = [stream_id |-> stream_sid, call_id |-> call_sid]
  /\ start_sent' = FALSE
  /\ botInvoked' = TRUE
  /\ wsPc' = "bot"
  /\ UNCHANGED <<attempt, call_sid, stream_sid, custom_parameters,
                 start_message_data, config, wire, consumedLen, numReceive,
                 numFail, delivered>>
  /\ UNCHANGED <<srvVars, sesVars>>

(* ----------------------- bot(): config extraction --------------------- *)
ConfigKeys == {"llm_context", "session_duration", "idle_warning_timeout",
               "idle_disconnect_timeout"}

\* bot.py 202-207; ok is FALSE when one of the int() calls raises
ExtractConfig(body) ==
  LET sd == PyInt(DictGet(body, "session_duration",
                          DEFAULT_CONFIG.session_duration))
      iw == PyInt(DictGet(body, "idle_warning_timeout",
                          DEFAULT_CONFIG.idle_warning_timeout))
      idt == PyInt(DictGet(body, "idle_disconnect_timeout",
                           DEFAULT_CONFIG.idle_disconnect_timeout))
  IN [ok |-> sd.ok /\ iw.ok /\ idt.ok,
      cfg |-> [llm_context |-> DictGet(body, "llm_context",
                                       DEFAULT_CONFIG.llm_context),
               session_duration |-> sd.v,
               idle_warning_timeout |-> iw.v,
               idle_disconnect_timeout |-> idt.v]]

\* bot.py 174-232: an exception of int() leaves bot() and is caught by
\* websocket_endpoint (server.py 255); otherwise run_bot is started
Bot ==
  /\ wsPc = "bot"
  /\ LET r == ExtractConfig(runner_body) IN
       IF r.ok
       THEN config' = <<r.cfg>> /\ wsPc' = "run_bot" /\ runner' = "running"
       ELSE config' = config /\ wsPc' = "failed" /\ runner' = runner
  /\ UNCHANGED <<attempt, call_sid, stream_sid, custom_parameters,
                 start_message_data, start_sent, runner_body, call_data,
                 botInvoked, wire, consumedLen, numReceive, numFail,
                 delivered>>
  /\ UNCHANGED <<client, session_timer_task, idleHandlers, retry_count,
                 userIdle, frames, cancels, activity, orphans>>
  /\ UNCHANGED srvVars

(* --------------------------- ReplayWebSocket -------------------------- *)
LiveMsgs == {MediaMsg} \cup StartMsgs

\* ReplayWebSocket.receive (server.py 223-227), called while the session runs
ReplayReceive ==
  /\ wsPc = "run_bot"
  /\ IF ~start_sent /\ start_message_data # <<>>
     THEN /\ start_sent' = TRUE
          /\ delivered' = Append(delivered,
               [src |-> "replay",
                msg |-> TextMsg(json_dumps(start_message_data[1]))])
          /\ UNCHANGED wire
     ELSE /\ Len(wire) - consumedLen < MaxLive
          /\ \E m \in LiveMsgs :
               /\ wire' = Append(wire, m)
               /\ delivered' = Append(delivered, [src |-> "live", msg |-> m])
          /\ UNCHANGED start_sent
  /\ UNCHANGED <<wsPc, attempt, call_sid, stream_sid, custom_parameters,
                 start_message_data, runner_body, call_data, botInvoked,
                 config, consumedLen, numReceive, numFail>>
  /\ UNCHANGED <<srvVars, sesVars>>

(* ------------------------------- run_bot ------------------------------ *)
HasEndFrame == \E f \in BagToSet(frames) : f.frame = "EndFrame"

\* the session has begun to close: an EndFrame is queued, the task is
\* cancelled, or runner.run has returned
ClosingBegun == HasEndFrame \/ cancels > 0 \/ runner # "running"

\* a frame, who queued it, and whether the session had begun to close then
Frame(kind, by) == [frame |-> kind, by |-> by, closing |-> ClosingBegun]

\* outcomes of task.queue_frame(f): the frame is queued, or the call raises
QueueOutcomes == {"queued", "raised"}

Queue(f) == frames' = frames (+) SetToBag({f})

\* task.done() of session_timer_task
TimerDone == session_timer_task \in {"done", "cancelled"}

\* a cancel without the guard on the handle and on done()
CancelTimerUnguarded == session_timer_task' = "cancelled"

\* if session_timer_task and not session_timer_task.done(): cancel()
CancelTimer ==
  session_timer_task' =
    IF session_timer_task # None /\ ~TimerDone THEN "cancelled"
    ELSE session_timer_task

\* on_client_connected (bot.py 137-144)
ClientConnected ==
  /\ runner = "running"
  /\ client = "none"
  /\ client' = "connected"
  /\ session_timer_task' = "sleeping"
  /\ Queue(Frame("LLMRunFrame", "on_client_connected"))
  /\ UNCHANGED <<runner, idleHandlers, retry_count, userIdle, cancels,
                 activity>>
  /\ UNCHANGED <<wsVars, srvVars, orphans>>

\* a timer body that goes to its grace sleep without the spoken message
TimerFireSilent ==
  /\ session_timer_task = "sleeping"
  /\ session_timer_task' = "grace"
  /\ UNCHANGED <<runner, client, idleHandlers, retry_count, userIdle,
                 frames, cancels, activity>>
  /\ UNCHANGED <<wsVars, srvVars, orphans>>

\* end_session_timer: asyncio.sleep(session_duration) is over (bot.py 74-80)
TimerFire ==
  /\ session_timer_task = "sleeping"
  /\ \E o \in QueueOutcomes :
       IF o = "queued"
       THEN /\ Queue(Frame("TTSSpeakFrame", "end_session_timer"))
            /\ session_timer_task' = "grace"
       ELSE \* except Exception (82-83)
            /\ session_timer_task' = "done"
            /\ UNCHANGED frames
  /\ UNCHANGED <<runner, client, idleHandlers, retry_count, userIdle,
                 cancels, activity>>
  /\ UNCHANGED <<wsVars, srvVars, orphans>>

\* end_session_timer: asyncio.sleep(3) is over (bot.py 81-83)
TimerEnd ==
  /\ session_timer_task = "grace"
  /\ session_timer_task' = "done"
  /\ \E o \in QueueOutcomes :
       IF o = "queued" THEN Queue(Frame("EndFrame", "end_session_timer"))
       ELSE UNCHANGED frames
  /\ UNCHANGED <<runner, client, idleHandlers, retry_count, userIdle,
                 cancels, activity>>
  /\ UNCHANGED <<wsVars, srvVars, orphans>>

\* handle_user_idle (bot.py 86-99), called by the UserIdleProcessor with
\* its retry count after idle_warning_timeout seconds without activity
UserIdle ==
  /\ runner = "running"
  /\ client = "connected"
  /\ userIdle = "monitoring"
  /\ retry_count' = retry_count + 1
  /\ Queue(Frame("TTSSpeakFrame",
                 IF retry_count' = 1 THEN "handle_user_idle 1"
                 ELSE IF retry_count' = 2 THEN "handle_user_idle 2"
                 ELSE "handle_user_idle 3"))
  /\ userIdle' = IF retry_count' \in {1, 2} THEN "monitoring" ELSE "grace"
  /\ UNCHANGED <<runner, client, session_timer_task, idleHandlers, cancels,
                 activity>>
  /\ UNCHANGED <<wsVars, srvVars, orphans>>

\* handle_user_idle: asyncio.sleep(3) is over, return False (bot.py 98-99):
\* the processor stops monitoring
UserIdleReturn ==
  /\ userIdle = "grace"
  /\ userIdle' = "stopped"
  /\ UNCHANGED <<runner, client, session_timer_task, idleHandlers,
                 retry_count, frames, cancels, activity>>
  /\ UNCHANGED <<wsVars, srvVars, orphans>>

\* the caller speaks: the UserIdleProcessor (bot.py 102-105) starts over
UserActivity ==
  /\ runner = "running"
  /\ client = "connected"
  /\ userIdle = "monitoring"
  /\ retry_count > 0
  /\ activity < MaxActivity
  /\ activity' = activity + 1
  /\ retry_count' = 0
  /\ UNCHANGED <<runner, client, session_timer_task, idleHandlers, userIdle,
                 frames, cancels>>
  /\ UNCHANGED <<wsVars, srvVars, orphans>>

\* an idle-timeout handler that goes to its grace sleep without the spoken
\* message
IdleTimeoutSilent ==
  /\ runner = "running"
  /\ Len(idleHandlers) < MaxIdleFires
  /\ idleHandlers' = Append(idleHandlers, "grace")
  /\ UNCHANGED <<runner, client, session_timer_task, retry_count, userIdle,
                 frames, cancels, activity>>
  /\ UNCHANGED <<wsVars, srvVars, orphans>>

\* on_idle_timeout (bot.py 157-160): the pipeline task saw no activity for
\* idle_disconnect_timeout seconds; an exception of queue_frame ends the
\* handler
IdleTimeout ==
  /\ runner = "running"
  /\ Len(idleHandlers) < MaxIdleFires
  /\ \E o \in QueueOutcomes :
       IF o = "queued"
       THEN /\ Queue(Frame("TTSSpeakFrame", "on_idle_timeout"))
            /\ idleHandlers' = Append(idleHandlers, "grace")
       ELSE /\ idleHandlers' = Append(idleHandlers, "done")
            /\ UNCHANGED frames
  /\ UNCHANGED <<runner, client, session_timer_task, retry_count, userIdle,
                 cancels, activity>>
  /\ UNCHANGED <<wsVars, srvVars, orphans>>

\* on_idle_timeout: asyncio.sleep(3) is over (bot.py 161-162)
IdleTimeoutEnd ==
  /\ \E i \in 1..Len(idleHandlers) :
       /\ idleHandlers[i] = "grace"
       /\ idleHandlers' = [idleHandlers EXCEPT ![i] = "done"]
  /\ \E o \in QueueOutcomes :
       IF o = "queued" THEN Queue(Frame("EndFrame", "on_idle_timeout"))
       ELSE UNCHANGED frames
  /\ UNCHANGED <<runner, client, session_timer_task, retry_count, userIdle,
                 cancels, activity>>
  /\ UNCHANGED <<wsVars, srvVars, orphans>>

\* on_client_disconnected (bot.py 146-155)
ClientDisconnected ==
  /\ runner \in {"running", "ended"}
  /\ client = "connected"
  /\ client' = "disconnected"
  /\ CancelTimer
  /\ cancels' = cancels + 1
  /\ UNCHANGED <<runner, idleHandlers, retry_count, userIdle, frames,
                 activity>>
  /\ UNCHANGED <<wsVars, srvVars, orphans>>

\* runner.run(task) returns (bot.py 167): the pipeline has processed an
\* EndFrame or the task was cancelled
RunnerReturn ==
  /\ runner = "running"
  /\ HasEndFrame \/ cancels > 0
  /\ runner' = "ended"
  /\ UNCHANGED <<client, session_timer_task, idleHandlers, retry_count,
                 userIdle, frames, cancels, activity>>
  /\ UNCHANGED <<wsVars, srvVars, orphans>>

\* the finally block of run_bot (bot.py 168-171); run_bot returns
Finally ==
  /\ runner = "ended"
  /\ runner' = "returned"
  /\ CancelTimer
  /\ UNCHANGED <<client, idleHandlers, retry_count, userIdle, frames,
                 cancels, activity>>
  /\ UNCHANGED <<wsVars, srvVars, orphans>>

\* on_client_connected (bot.py 137-144) raised again by the transport: the
\* new task replaces the handle, the earlier task is not cancelled
ClientConnectedAgain ==
  /\ runner = "running"
  /\ client = "connected"
  /\ BagCardinality(orphans) < MaxReconnects
  /\ orphans' = orphans (+) SetToBag({session_timer_task})
  /\ session_timer_task' = "sleeping"
  /\ Queue(Frame("LLMRunFrame", "on_client_connected"))
  /\ UNCHANGED <<runner, client, idleHandlers, retry_count, userIdle,
                 cancels, activity>>
  /\ UNCHANGED <<wsVars, srvVars>>

\* end_session_timer (bot.py 74-80) of a task whose handle was replaced
OrphanTimerFire ==
  /\ BagIn("sleeping", orphans)
  /\ \E o \in QueueOutcomes :
       IF o = "queued"
       THEN /\ Queue(Frame("TTSSpeakFrame", "end_session_timer"))
            /\ orphans' = (orphans (-) SetToBag({"sleeping"}))
                            (+) SetToBag({"grace"})
       ELSE /\ orphans' = (orphans (-) SetToBag({"sleeping"}))
                            (+) SetToBag({"done"})
            /\ UNCHANGED frames
  /\ UNCHANGED <<runner, client, session_timer_task, idleHandlers,
                 retry_count, userIdle, cancels, activity>>
  /\ UNCHANGED <<wsVars, srvVars>>

\* end_session_timer (bot.py 81-83) of a task whose handle was replaced
OrphanTimerEnd ==
  /\ BagIn("grace", orphans)
  /\ orphans' = (orphans (-) SetToBag({"grace"})) (+) SetToBag({"done"})
  /\ \E o \in QueueOutcomes :
       IF o = "queued" THEN Queue(Frame("EndFrame", "end_session_timer"))
       ELSE UNCHANGED frames
  /\ UNCHANGED <<runner, client, session_timer_task, idleHandlers,
                 retry_count, userIdle, cancels, activity>>
  /\ UNCHANGED <<wsVars, srvVars>>

InitSes ==
  /\ runner = "none"
  /\ client = "none"
  /\ session_timer_task = None
  /\ idleHandlers = <<>>
  /\ retry_count = 0
  /\ userIdle = "monitoring"
  /\ frames = EmptyBag
  /\ cancels = 0
  /\ activity = 0
  /\ orphans = EmptyBag

NextSes ==
  \/ ClientConnected
  \/ TimerFire
  \/ TimerEnd
  \/ UserIdle
  \/ UserIdleReturn
  \/ UserActivity
  \/ IdleTimeout
  \/ IdleTimeoutEnd
  \/ ClientDisconnected
  \/ RunnerReturn
  \/ Finally

\* the session when the transport may raise on_client_connected again
NextReconnect ==
  \/ ClientConnected
  \/ ClientConnectedAgain
  \/ TimerFire
  \/ TimerEnd
  \/ OrphanTimerFire
  \/ OrphanTimerEnd
  \/ UserIdle
  \/ UserIdleReturn
  \/ UserActivity
  \/ IdleTimeout
  \/ IdleTimeoutEnd
  \/ ClientDisconnected
  \/ RunnerReturn
  \/ Finally

(* ------------------------------ /ws specification --------------------- *)
InitWs ==
  /\ wsPc = "loop"
  /\ attempt = 0
  /\ call_sid = None
  /\ stream_sid = None
  /\ custom_parameters = EmptyDict
  /\ start_message_data = <<>>
  /\ start_sent = FALSE
  /\ runner_body = EmptyDict
  /\ call_data = [stream_id |-> None, call_id |-> None]
  /\ botInvoked = FALSE
  /\ config = <<>>
  /\ wire = <<>>
  /\ consumedLen = 0
  /\ numReceive = 0
  /\ numFail = 0
  /\ delivered = <<>>

\* the state at start-up: the registry is empty, no connection has sent
\* anything, the environment is one of its configurations
Init ==
  /\ \E e \in EnvConfigs : BASE_URL = e[1] /\ NGROK_URL = e[2]
  /\ InitSrv
  /\ InitWs
  /\ InitSes

SpecSrv == Init /\ [][NextSrv]_vars

NextWs ==
  \/ RecvMessage
  \/ RecvTimeout
  \/ RecvError
  \/ LoopExit
  \/ Handoff
  \/ Bot
  \/ ReplayReceive

SpecWs == Init /\ [][NextWs]_vars

(* ------------------------ bot() on arbitrary bodies ------------------- *)
\* raw values of a duration parameter: numeric, zero, negative, numeric
\* string, signed string, non-numeric string, empty string
RawInputs ==
  { IntVal(5), IntVal(0), IntVal(0 - 1), StrVal(<<"5">>), StrVal(<<"1", "0">>),
    StrVal(<<"-", "5">>), StrVal(<<"a">>), StrVal(<<>>) }

NumericKeys == {"session_duration", "idle_warning_timeout",
                "idle_disconnect_timeout"}

BodyInputs ==
  UNION { [ks -> RawInputs] : ks \in SUBSET NumericKeys }

InitBot ==
  /\ wsPc = "bot"
  /\ attempt = 0
  /\ call_sid = "CA1"
  /\ stream_sid = "MZ1"
  /\ runner_body \in BodyInputs
  /\ custom_parameters = runner_body
  /\ start_message_data =
       <<JsonObj("start", <<StartData("CA1", "MZ1", <<runner_body>>)>>)>>
  /\ start_sent = FALSE
  /\ call_data = [stream_id |-> "MZ1", call_id |-> "CA1"]
  /\ botInvoked = TRUE
  /\ config = <<>>
  /\ wire = <<StartMsg("CA1", "MZ1", <<runner_body>>)>>
  /\ consumedLen = 1
  /\ numReceive = 1
  /\ numFail = 0
  /\ delivered = <<>>
  /\ BASE_URL = <<>> /\ NGROK_URL = <<>>
  /\ InitSrv
  /\ InitSes

NextBot == Bot

SpecBot == InitBot /\ [][NextBot]_vars

(* ---------------------------- run_bot specification ------------------- *)
\* a connection that sent "connected" and "start", correlated by
\* websocket_endpoint; bot() has built the config and called run_bot
InitRunBot ==
  /\ wsPc = "run_bot"
  /\ attempt = 1
  /\ call_sid = "CA1"
  /\ stream_sid = "MZ1"
  /\ custom_parameters = EmptyDict
  /\ start_message_data =
       <<JsonObj("start", <<StartData("CA1", "MZ1", <<EmptyDict>>)>>)>>
  /\ start_sent = FALSE
  /\ runner_body = EmptyDict
  /\ call_data = [stream_id |-> "MZ1", call_id |-> "CA1"]
  /\ botInvoked = TRUE
  /\ config = <<ExtractConfig(EmptyDict).cfg>>
  /\ wire = <<ConnectedMsg, StartMsg("CA1", "MZ1", <<EmptyDict>>)>>
  /\ consumedLen = 2
  /\ numReceive = 2
  /\ numFail = 0
  /\ delivered = <<>>
  /\ BASE_URL = <<>> /\ NGROK_URL = <<>>
  /\ InitSrv
  /\ runner = "running"
  /\ client = "none"
  /\ session_timer_task = None
  /\ idleHandlers = <<>>
  /\ retry_count = 0
  /\ userIdle = "monitoring"
  /\ frames = EmptyBag
  /\ cancels = 0
  /\ activity = 0
  /\ orphans = EmptyBag

\* one websocket, one on_client_connected event
SpecSes == InitRunBot /\ [][NextSes]_vars

SpecReconnect == InitRunBot /\ [][NextReconnect]_vars

(* ============================== claims ================================ *)

\* two messages are the same message when they have the same type and
\* their texts denote the same JSON value
SameMessage(a, b) ==
  /\ a.type = b.type
  /\ (a.text = <<>>) = (b.text = <<>>)
  /\ a.text # <<>> /\ b.text # <<>> => json_loads(a.text[1]) = json_loads(b.text[1])

\* C1: what ReplayWebSocket.receive() returns is the sequence of messages
\* taken from the wire: first every message read during correlation, once
\* and in read order, as replays, then the messages of the live connection.
C1_ReplayAllInOrder ==
  \A i \in 1..Len(delivered) :
    /\ SameMessage(delivered[i].msg, wire[i])
    /\ delivered[i].src = (IF i <= consumedLen THEN "replay" ELSE "live")

\* C2: when the correlation loop has ended without a start event, bot() is
\* not invoked for the connection.
C2_NoSessionWithoutStart ==
  (wsPc # "loop" /\ start_message_data = <<>>) => ~botInvoked

\* C3: the correlation loop performs at most 10 receive attempts.
C3_AtMostTenReceives == numReceive <= 10

\* C4: when the messages of the connection hold exactly one start event, at
\* position k <= 10, and no receive timed out or raised, the session gets
\* that event's callSid, streamSid and customParameters.
C4_CorrelationYieldsStart ==
  \A k \in 1..Len(wire) :
    ( /\ botInvoked
      /\ numFail = 0
      /\ k <= 10
      /\ IsStartMsg(wire[k])
      /\ \A j \in 1..Len(wire) : IsStartMsg(wire[j]) => j = k )
    => LET ev == wire[k].text[1].body.start[1] IN
         /\ call_data.call_id = ev.callSid
         /\ call_data.stream_id = ev.streamSid
         /\ runner_body = (IF ev.customParameters = <<>> THEN EmptyDict
                           ELSE ev.customParameters[1])

\* C4 witness: nine "connected" messages and then the start event
C4_Witness ==
  /\ botInvoked
  /\ numFail = 0
  /\ Len(wire) = 10
  /\ \A j \in 1..9 : wire[j] = ConnectedMsg
  /\ IsStartMsg(wire[10])
  /\ call_data.call_id = "CA1"
  /\ DOMAIN runner_body = {"session_duration", "idle_warning_timeout"}

\* C9: bot() never fails on its body: it always starts the session, with
\* positive durations, the default standing in for a value that is absent
\* or cannot be parsed.
C9_ConfigAlwaysValid ==
  (botInvoked /\ wsPc # "bot") =>
    /\ wsPc = "run_bot"
    /\ config # <<>>
    /\ \A k \in NumericKeys :
         /\ config[1][k] > 0
         /\ (k \notin DOMAIN runner_body \/ ~PyInt(runner_body[k]).ok)
              => config[1][k] = DEFAULT_CONFIG[k].v

(* ------------------------- claims on the server ----------------------- *)
RECURSIVE SumCopies(_, _)
SumCopies(B, S) ==
  IF S = {} THEN 0
  ELSE LET e == CHOOSE x \in S : TRUE
       IN CopiesIn(e, B) + SumCopies(B, S \ {e})

\* the answered /start requests that stored an entry for call id s
StartsFor(s) ==
  { d \in BagToSet(done) :
      d.kind = "start" /\ d.response.status = 200 /\ d.response.call_sid = s }

\* the answered /twiml requests for call id s
TwimlsFor(s) ==
  { d \in BagToSet(done) : d.kind = "twiml" /\ d.data.CallSid = s }

Puts(s) == SumCopies(done, StartsFor(s))
FullTakes(s) ==
  SumCopies(done, { d \in TwimlsFor(s) : DOMAIN d.response.taken # {} })
Present(s) == IF s \in DOMAIN call_body_data THEN 1 ELSE 0

\* C5: a registry entry is consumed at most once: the takes that got
\* parameters for a call id, plus the entry still stored, never outnumber
\* the stores; an entry stored once is either still stored or was returned
\* to exactly one take; after a take the entry is absent until it is stored
\* again.
C5_TakeAtMostOnce ==
  \A s \in Sids :
    /\ FullTakes(s) + Present(s) <= Puts(s)
    /\ Puts(s) = 1 => FullTakes(s) + Present(s) = 1
    /\ \A t \in TwimlsFor(s) :
         (\A d \in StartsFor(s) : d.response.at <= t.response.at)
           => s \notin DOMAIN call_body_data

\* C5 witness: the entry of CA1 was stored once and two /twiml handlers for
\* CA1 have run: one got the parameters, the other got nothing
C5_Witness ==
  /\ Puts("CA1") = 1
  /\ \E t1, t2 \in TwimlsFor("CA1") :
       /\ DOMAIN t1.response.taken # {}
       /\ DOMAIN t2.response.taken = {}
       /\ t1.data = t2.data
  /\ "CA1" \notin DOMAIN call_body_data

NoPhone(data) ==
  "phone_number" \notin DOMAIN data \/ ~Truthy(data.phone_number)

\* C8: a /start request without phone_number (or with an empty one) is
\* answered with status 400, places no call and leaves the registry as it is.
C8_MissingPhoneIs400 ==
  [][ \A r \in BagToSet(inflight) :
        (r.kind = "start" /\ NoPhone(r.data)
           /\ inflight' = inflight (-) SetToBag({r}))
        => /\ done' = done (+) SetToBag({[kind |-> "start", data |-> r.data,
                                          response |-> [status |-> 400]]})
           /\ call_body_data' = call_body_data
           /\ placed' = placed ]_vars

\* the entry POST /start is to store for a request body: the passthrough
\* body parameters, and the four configuration fields with the request's
\* values, the documented default where the request omits one
ExpectedEntry(data) ==
  LET body == IF "body" \in DOMAIN data THEN data.body ELSE EmptyDict IN
  [k \in DOMAIN body \cup ConfigKeys |->
     IF k \in ConfigKeys
     THEN (IF k \in DOMAIN data THEN data[k] ELSE DEFAULT_CONFIG[k])
     ELSE body[k]]

\* C10: as long as no /twiml handler has taken it, the registry holds under
\* the call id of the latest successful /start for that id the entry of
\* that request (a later /start for the same call id overwrites).
C10_StartStoresEntry ==
  \A s \in Sids : \A d \in StartsFor(s) :
    ( /\ \A e \in StartsFor(s) : e.response.at <= d.response.at
      /\ \A t \in TwimlsFor(s) : t.response.at < d.response.at )
    => /\ s \in DOMAIN call_body_data
       /\ call_body_data[s] = ExpectedEntry(d.data)

\* C10 witness: two successful /start requests with different bodies got
\* the call id CA1; the registry holds the entry of the second, with its
\* passthrough parameter
C10_Witness ==
  /\ \E d1, d2 \in StartsFor("CA1") :
       /\ d1.response.at = 1 /\ d2.response.at = 2
       /\ "body" \notin DOMAIN d1.data
       /\ "body" \in DOMAIN d2.data
  /\ "CA1" \in DOMAIN call_body_data
  /\ "customer" \in DOMAIN call_body_data["CA1"]
  /\ call_body_data["CA1"].session_duration = IntVal(180)

(* ------------------------- claims on the session ---------------------- *)
\* number of frames of a kind queued by a handler
CountFrames(kind, by) ==
  CopiesIn([frame |-> kind, by |-> by, closing |-> FALSE], frames)
    + CopiesIn([frame |-> kind, by |-> by, closing |-> TRUE], frames)

EndSignals ==
  CountFrames("EndFrame", "end_session_timer")
    + CountFrames("EndFrame", "on_idle_timeout") + cancels

ClosingMessages ==
  CountFrames("TTSSpeakFrame", "end_session_timer")
    + CountFrames("TTSSpeakFrame", "on_idle_timeout")

\* C6: the session is ended exactly once: the idle-timeout handler, the
\* session timer and the disconnect handler together give at most one end
\* signal (EndFrame or task.cancel()) and at most one closing message.
C6_ClosedExactlyOnce == EndSignals <= 1 /\ ClosingMessages <= 1

ExpiredMessages == CountFrames("TTSSpeakFrame", "end_session_timer")

TwimlAnswers(r, d) ==
  /\ r.kind = "twiml"
  /\ inflight' = inflight (-) SetToBag({r})
  /\ d.kind = "twiml" /\ d.data = r.data
  /\ CopiesIn(d, done') = CopiesIn(d, done) + 1

ValidEmptyDocument(resp) ==
  /\ resp.status = 200
  /\ DOMAIN resp.content.params = {}

C14_AlwaysWss ==
  \A d \in BagToSet(done) :
    (d.kind = "twiml" /\ d.response.status = 200)
      => d.response.content.url[1] = "wss://"

(* -------------------- claims on the closing handlers ------------------ *)
\* C12: an EndFrame of the session timer or of the idle-timeout handler is
\* queued only after the closing TTSSpeakFrame of the same handler.
C12_ClosingMessageBeforeEnd ==
  /\ CountFrames("EndFrame", "end_session_timer")
       <= CountFrames("TTSSpeakFrame", "end_session_timer")
  /\ CountFrames("EndFrame", "on_idle_timeout")
       <= CountFrames("TTSSpeakFrame", "on_idle_timeout")
  /\ CountFrames("EndFrame", "handle_user_idle 3") = 0

\* C12 witness: both handlers have queued their message and their EndFrame
C12_Witness ==
  /\ CountFrames("EndFrame", "on_idle_timeout") = 1
  /\ CountFrames("TTSSpeakFrame", "on_idle_timeout") = 1
  /\ CountFrames("EndFrame", "end_session_timer") = 1
  /\ CountFrames("TTSSpeakFrame", "end_session_timer") = 1

\* C13: a session timer that has finished or was cancelled stays as it is,
\* whatever cancels it again, and a handle that holds no task is only ever
\* changed by arming the timer.
C13_CancelIsIdempotent ==
  [][ /\ TimerDone => session_timer_task' = session_timer_task
      /\ session_timer_task = None
           => session_timer_task' \in {None, "sleeping"} ]_vars

\* C13 witness: the disconnect handler cancelled the sleeping timer and the
\* cleanup of run_bot ran after it
C13_Witness ==
  /\ runner = "returned"
  /\ client = "disconnected"
  /\ cancels = 1
  /\ session_timer_task = "cancelled"

\* C15: when handle_user_idle has returned from its third firing, the
\* session has begun to close.
C15_IdleExhaustionCloses == userIdle = "stopped" => ClosingBegun

\* C16: a closing handler whose TTSSpeakFrame could not be queued has still
\* queued its EndFrame when it is finished.
C16_EndSignalDespiteFailure ==
  /\ (session_timer_task = "done" /\ ExpiredMessages = 0)
       => CountFrames("EndFrame", "end_session_timer") >= 1
  /\ ( /\ \A i \in 1..Len(idleHandlers) : idleHandlers[i] = "done"
       /\ CountFrames("TTSSpeakFrame", "on_idle_timeout") < Len(idleHandlers) )
       => CountFrames("EndFrame", "on_idle_timeout") >= 1

\* C17: the session timer and the idle-timeout handler queue no frame once
\* the session has begun to close.
C17_StaleHandlerIsNoOp ==
  \A f \in BagToSet(frames) :
    f.by \in {"end_session_timer", "on_idle_timeout"} => ~f.closing

\* C18: when an end signal has been given (an EndFrame is queued or the
\* pipeline task is cancelled), the session timer is no longer pending.
C18_TimersCancelledFirst ==
  (HasEndFrame \/ cancels > 0) => session_timer_task \notin {"sleeping", "grace"}

(* ------------------------ claims on the defaults ---------------------- *)
\* C19: when the start event found by the correlation loop has no
\* customParameters, or empty ones, bot() starts the session with the
\* defaults: 180 s session, 8 s idle warning, 30 s idle disconnect and the
\* default prompt.
C19_MissingParametersGiveDefaults ==
  ( /\ botInvoked
    /\ wsPc # "bot"
    /\ start_message_data # <<>>
    /\ custom_parameters = EmptyDict )
  => /\ wsPc = "run_bot"
     /\ runner # "none"
     /\ config = << [llm_context |-> DefaultPrompt,
                     session_duration |-> 180,
                     idle_warning_timeout |-> 8,
                     idle_disconnect_timeout |-> 30] >>

\* C19 witness: a start event without customParameters was found and the
\* session runs with the defaults
C19_Witness ==
  /\ wsPc = "run_bot"
  /\ runner = "running"
  /\ start_message_data # <<>>
  /\ start_message_data[1].start[1].customParameters = <<>>
  /\ config # <<>>
  /\ config[1].session_duration = 180
  /\ config[1].idle_warning_timeout = 8
  /\ config[1].idle_disconnect_timeout = 30
  /\ config[1].llm_context = DefaultPrompt

(* ---------------------- claims on the session timer ------------------- *)
\* session timer tasks created by run_bot that are not finished
PendingTimers ==
  (IF session_timer_task \in {"sleeping", "grace"} THEN 1 ELSE 0)
    + CopiesIn("sleeping", orphans) + CopiesIn("grace", orphans)

\* C20: at most one session timer task of a run_bot invocation is pending
\* at any time, and none is pending when run_bot has returned.
C20_OneTimerNoLeak ==
  /\ PendingTimers <= 1
  /\ runner = "returned" => PendingTimers = 0

(* ------------------ claims on the order of put and take --------------- *)
\* the answered /twiml requests for call id s that were handled after the
\* call of the answered /start request d was placed
ServedAfter(s, d) ==
  { t \in TwimlsFor(s) : t.response.at >= d.response.at }

\* the registry's keys are the call ids of the successful /start requests
\* after which no /twiml request for that call id was handled
KeysAreUnserved ==
  \A s \in Sids :
    s \in DOMAIN call_body_data
      <=> \E d \in StartsFor(s) : ServedAfter(s, d) = {}

====
